---- MODULE Spec2Model ----
(***************************************************************************)
(* State-machine model of the BERDL access-request JupyterLab extension:   *)
(* the transport client (api.ts), the access-request modal                 *)
(* (AccessRequestModal.tsx) and the credential modal (CredentialModal.tsx).*)
(*                                                                         *)
(* Conventions.  A nullable JavaScript string is a sequence: <<>> is       *)
(* null/undefined and <<s>> is the string s.  One step of the model is one *)
(* task of the browser's event loop: a user event with the handler it      *)
(* runs, or the settlement of one pending promise with the continuation it *)
(* resumes.  React re-renders between two tasks, so a handler always sees  *)
(* the state the previous task left.                                       *)
(***************************************************************************)
EXTENDS Integers, Sequences, FiniteSets, TLC

VARIABLES
    ar,          \* ModalState of the AccessRequestModal instance
    arMounted,   \* the instance is mounted (its dialog has not been flushed)
    arCalls,     \* the api calls of the instance that are in flight, oldest first
    arIssued,    \* how many calls of each api function the instance has issued
    cred,        \* the useState cells of the CredentialModal instance
    credMounted, \* the instance is mounted
    credCalls,   \* the asynchronous calls of the instance that are in flight
    credIssued,  \* how many operations of each kind the instance has started
    timers,      \* pending setTimeout callbacks of handleCopy: the time left
                 \* to each, in ms, oldest first
    clipboard,   \* text on the system clipboard (Null: nothing written yet)
    api,         \* one call of a transport function: its exchange and outcome
    dialogs,     \* the dialogs the extension has shown, in the order of showing
    closeCalls,  \* how many times the onClose callback of the modal has run
    notebooks    \* the notebook tracker and the plugin's hold on it

arVars == <<ar, arMounted, arCalls, arIssued>>
credVars == <<cred, credMounted, credCalls, credIssued, timers, clipboard>>
vars == <<ar, arMounted, arCalls, arIssued,
          cred, credMounted, credCalls, credIssued, timers, clipboard, api,
          dialogs, closeCalls, notebooks>>

----------------------------------------------------------------------------
(* Bounds of the model *)

\* longest available_groups list a groups response carries
MaxGroups == 2
\* most submitAccessRequest calls one modal instance issues
MaxSubmits == 2
\* most getCredentialInfo calls one modal instance issues (the first included)
MaxLoads == 2
\* most copies to the clipboard one modal instance starts
MaxCopies == 2
\* most downloads one modal instance starts
MaxDownloads == 1
\* a script dispatches submit events on the form only while the instance has
\* issued fewer submitAccessRequest calls than this
MaxDispatched == 1
\* most notebook panels the tracker holds
MaxPanels == 2
\* most dialogs the extension shows
MaxDialogs == 3

----------------------------------------------------------------------------
(* JavaScript values *)

\* the notebook tracker before the plugin is activated, without panels;
\* visited counts the panels the forEach of activate has visited
NoNotebooks == [activated |-> FALSE, visited |-> 0, panels |-> <<>>]

Null == <<>>
Str(s) == <<s>>

\* !x for a nullable string: null, undefined and '' are falsy
Falsy(x) == x = Null \/ x = Str("")

\* a || b for a nullable string a and a string b; the result is a string
JsOr(a, b) == IF Falsy(a) THEN b ELSE a[1]

\* arr[0] : undefined when the array is empty
First(arr) == IF Len(arr) = 0 THEN Null ELSE Str(arr[1])

RECURSIVE SeqsUpTo(_, _)
SeqsUpTo(S, n) ==
    IF n = 0 THEN {<<>>}
    ELSE LET shorter == SeqsUpTo(S, n - 1)
         IN shorter \cup {Append(q, x) : q \in shorter, x \in S}

Range(q) == {q[i] : i \in 1..Len(q)}

----------------------------------------------------------------------------
(* What the backend and the network can answer *)

GroupNames == {"", "alpha", "beta"}
GroupLists == SeqsUpTo(GroupNames, MaxGroups)
MyGroupLists == {<<>>, <<"alpha">>}
ErrorStatuses == {400, 500}
\* the error field of a JSON error body: absent, empty, or a message
ErrorFields == {Null, Str(""), Str("bad tenant")}
\* response.json() on a body that is not JSON rejects with a SyntaxError whose
\* message the JavaScript engine words
SyntaxErrorMessages ==
    {"Unexpected token < in JSON at position 0", "Unexpected end of JSON input"}
\* ServerConnection.makeRequest rejects when no response is received
NetworkErrorMessages == {"Failed to fetch"}
SuccessMessages == {"", "Request submitted"}

\* An HTTP exchange as the client sees it: net is the message of a
\* network-level failure (Null when a response arrived), parseError the
\* message response.json() rejects with (Null when the body is JSON), error
\* the error field of the JSON body.
Exchange(net, status, parseError, error, data) ==
    [net |-> net, status |-> status, parseError |-> parseError,
     error |-> error, data |-> data]

NoData == [available_groups |-> <<>>, my_groups |-> <<>>, message |-> ""]

FailedExchanges ==
    {Exchange(Str(m), 0, Null, Null, NoData) : m \in NetworkErrorMessages}
    \cup {Exchange(Null, s, Null, e, NoData) : s \in ErrorStatuses, e \in ErrorFields}
    \cup {Exchange(Null, s, Str(m), Null, NoData) :
            s \in ErrorStatuses, m \in SyntaxErrorMessages}

\* a 2xx answer whose body is not JSON
GarbledExchanges ==
    {Exchange(Null, 200, Str(m), Null, NoData) : m \in SyntaxErrorMessages}

GroupsExchanges ==
    FailedExchanges
    \cup {Exchange(Null, 200, Null, Null,
                   [available_groups |-> a, my_groups |-> m, message |-> ""]) :
            a \in GroupLists, m \in MyGroupLists}
    \cup GarbledExchanges

SubmitExchanges ==
    FailedExchanges
    \cup GarbledExchanges
    \cup {Exchange(Null, 200, Null, Null,
                   [available_groups |-> <<>>, my_groups |-> <<>>, message |-> m]) :
            m \in SuccessMessages}

\* CredentialInfo bodies: local_mode is optional (Null: the field is absent)
CredentialInfos ==
    {[username |-> "ada", hub_url |-> "https://hub.example", cookies_valid |-> c,
      local_mode |-> l,
      missing_cookies |-> IF c THEN <<>> ELSE <<"kbase_session">>] :
        c \in BOOLEAN, l \in {Null, <<FALSE>>, <<TRUE>>}}

InfoExchanges ==
    FailedExchanges
    \cup GarbledExchanges
    \cup {Exchange(Null, 200, Null, Null, d) : d \in CredentialInfos}

\* the config endpoint answers YAML, which is not JSON
ConfigTexts == {"token: t1", "token: t2"}
TextExchanges ==
    FailedExchanges
    \cup {Exchange(Null, 200, Str("Unexpected token o in JSON at position 1"),
                   Null, d) : d \in ConfigTexts}

\* response.ok
ResponseOk(x) == x.status >= 200 /\ x.status <= 299

----------------------------------------------------------------------------
(* Transport client (api.ts) *)

Resolve(v) == [ok |-> TRUE, value |-> v, message |-> ""]
Reject(m) == [ok |-> FALSE, value |-> NoData, message |-> m]

RequestFailed(status) == "Request failed: " \o ToString(status)

\* The shared shape of the four api functions: await makeRequest; on a
\* non-ok response await response.json() and throw new Error(data.error ||
\* fallback); otherwise return response.text() or await response.json().
ApiCall(x, fallback, asText) ==
    IF x.net # Null THEN Reject(x.net[1])
    ELSE IF ~ResponseOk(x)
    THEN IF x.parseError # Null
         THEN Reject(x.parseError[1])
         ELSE Reject(JsOr(x.error, fallback))
    ELSE IF asText THEN Resolve(x.data)
    ELSE IF x.parseError # Null THEN Reject(x.parseError[1])
    ELSE Resolve(x.data)

fetchGroups(x) == ApiCall(x, RequestFailed(x.status), FALSE)

submitAccessRequest(x) == ApiCall(x, RequestFailed(x.status), FALSE)

\* variant: the status-derived fallback of fetchGroups
getCredentialInfo_StatusFallback(x) == ApiCall(x, RequestFailed(x.status), FALSE)

getCredentialInfo(x) == ApiCall(x, "Failed to get credential info", FALSE)

getCredentialsAsText(x) == ApiCall(x, "Failed to get credentials", TRUE)

----------------------------------------------------------------------------
(* React *)

\* variant: the update is applied whether or not the component is mounted
SetState_AfterUnmount(mounted, prev, next) == next

\* setState(prev => next): React drops an update scheduled on a component
\* that has been unmounted
SetState(mounted, prev, next) == IF mounted THEN next ELSE prev

----------------------------------------------------------------------------
(* AccessRequestModal *)

Permissions == {"read_only", "read_write"}
Justifications == {"", "need it"}

NoRequest == [tenant_name |-> "", permission |-> "", justification |-> Null]

Call(op, req) == [op |-> op, req |-> req]

\* q without its i-th element
RemoveAt(q, i) == SubSeq(q, 1, i - 1) \o SubSeq(q, i + 1, Len(q))

\* variant: the initial state is not loading
InitialModalState_NotLoading ==
    [loading |-> FALSE, submitting |-> FALSE, error |-> Null, success |-> Null,
     availableGroups |-> <<>>, myGroups |-> <<>>, selectedGroup |-> "",
     permission |-> "read_only", justification |-> ""]

\* the useState initial value
InitialModalState ==
    [loading |-> TRUE, submitting |-> FALSE, error |-> Null, success |-> Null,
     availableGroups |-> <<>>, myGroups |-> <<>>, selectedGroup |-> "",
     permission |-> "read_only", justification |-> ""]

\* the state after construction and the mount effect: fetchGroups() is issued
InitAR ==
    /\ ar = InitialModalState
    /\ arMounted = TRUE
    /\ arCalls = <<Call("groups", NoRequest)>>
    /\ arIssued = [groups |-> 1, submit |-> 0]

\* no AccessRequestModal has been opened
IdleAR ==
    /\ ar = InitialModalState
    /\ arMounted = FALSE
    /\ arCalls = <<>>
    /\ arIssued = [groups |-> 0, submit |-> 0]

InFlight(op) == {i \in 1..Len(arCalls) : arCalls[i].op = op}

\* which branch of the content area is rendered
LoadingView(s) == s.loading
SuccessView(s) == ~s.loading /\ ~Falsy(s.success)
FormView(s) == ~s.loading /\ Falsy(s.success)

\* variant: the submit button forgets the submitting flag
SubmitDisabled_IgnoresSubmitting(s) == s.selectedGroup = ""

\* variant: the submit button is disabled while submitting only
SubmitDisabled_SubmittingOnly(s) == s.submitting

\* disabled={state.submitting || !state.selectedGroup}
SubmitDisabled(s) == s.submitting \/ s.selectedGroup = ""
\* disabled={state.submitting} of the Cancel button
CancelDisabled(s) == s.submitting

\* arr[arr.length - 1]
Last(arr) == IF Len(arr) = 0 THEN Null ELSE Str(arr[Len(arr)])

\* variant: the default selection is the last available group
GroupsLoaded_SelectsLast(s, r) ==
    IF r.ok
    THEN [s EXCEPT !.loading = FALSE,
                   !.availableGroups = r.value.available_groups,
                   !.myGroups = r.value.my_groups,
                   !.selectedGroup = JsOr(Last(r.value.available_groups), "")]
    ELSE [s EXCEPT !.loading = FALSE,
                   !.error = Str("Failed to load groups: " \o r.message)]

\* variant: the catch branch forgets to clear loading
GroupsLoaded_StaysLoading(s, r) ==
    IF r.ok
    THEN [s EXCEPT !.loading = FALSE,
                   !.availableGroups = r.value.available_groups,
                   !.myGroups = r.value.my_groups,
                   !.selectedGroup = JsOr(First(r.value.available_groups), "")]
    ELSE [s EXCEPT !.error = Str("Failed to load groups: " \o r.message)]

\* fetchGroups().then(...).catch(...)
GroupsLoaded(s, r) ==
    IF r.ok
    THEN [s EXCEPT !.loading = FALSE,
                   !.availableGroups = r.value.available_groups,
                   !.myGroups = r.value.my_groups,
                   !.selectedGroup = JsOr(First(r.value.available_groups), "")]
    ELSE [s EXCEPT !.loading = FALSE,
                   !.error = Str("Failed to load groups: " \o r.message)]

GroupsSettle(i, x) ==
    /\ i \in InFlight("groups")
    /\ arCalls' = RemoveAt(arCalls, i)
    /\ ar' = SetState(arMounted, ar, GroupsLoaded(ar, fetchGroups(x)))
    /\ UNCHANGED <<arMounted, arIssued, credVars, api, dialogs, closeCalls, notebooks>>

SelectGroup(g) ==
    /\ arMounted /\ FormView(ar)
    /\ g \in Range(ar.availableGroups)
    /\ ar' = [ar EXCEPT !.selectedGroup = g]
    /\ UNCHANGED <<arMounted, arCalls, arIssued, credVars, api, dialogs, closeCalls, notebooks>>

SetPermission(p) ==
    /\ arMounted /\ FormView(ar)
    /\ ar' = [ar EXCEPT !.permission = p]
    /\ UNCHANGED <<arMounted, arCalls, arIssued, credVars, api, dialogs, closeCalls, notebooks>>

SetJustification(j) ==
    /\ arMounted /\ FormView(ar)
    /\ ar' = [ar EXCEPT !.justification = j]
    /\ UNCHANGED <<arMounted, arCalls, arIssued, credVars, api, dialogs, closeCalls, notebooks>>

\* variant: handleSubmit without its validation
ValidationError_None(s) == Null

\* variant: the validation with one message for every empty selection
ValidationError_SingleMessage(s) ==
    IF s.selectedGroup = "" THEN Str("Please select a group") ELSE Null

\* the validation at the head of handleSubmit: the message it sets, or Null
\* when the submit goes ahead
ValidationError(s) ==
    IF s.selectedGroup = ""
    THEN IF Len(s.availableGroups) = 0
         THEN Str("No groups available to request access to")
         ELSE Str("Please select a group")
    ELSE Null

\* variant: the request is built with the default permission
SubmitRequestOf_DefaultPermission(s) ==
    [tenant_name |-> s.selectedGroup, permission |-> "read_only",
     justification |-> IF s.justification = "" THEN Null ELSE Str(s.justification)]

\* the request handleSubmit builds from the state of its render
SubmitRequestOf(s) ==
    [tenant_name |-> s.selectedGroup, permission |-> s.permission,
     justification |-> IF s.justification = "" THEN Null ELSE Str(s.justification)]

\* handleSubmit up to its await: the new state and the calls it issues
HandleSubmit(s) ==
    IF ValidationError(s) # Null
    THEN [state |-> [s EXCEPT !.error = ValidationError(s)], calls |-> <<>>]
    ELSE [state |-> [s EXCEPT !.submitting = TRUE, !.error = Null],
          calls |-> <<Call("submit", SubmitRequestOf(s))>>]

\* the user activates the submit button of the form (a disabled default
\* button also blocks the implicit submission of the form from a field)
Submit ==
    /\ arMounted /\ FormView(ar) /\ ~SubmitDisabled(ar)
    /\ arIssued.submit < MaxSubmits
    /\ ar' = HandleSubmit(ar).state
    /\ arCalls' = arCalls \o HandleSubmit(ar).calls
    /\ arIssued' = [arIssued EXCEPT !.submit = @ + Len(HandleSubmit(ar).calls)]
    /\ UNCHANGED <<arMounted, credVars, api, dialogs, closeCalls, notebooks>>

\* a submit event dispatched on the form by a script (form.requestSubmit(),
\* a dispatched SubmitEvent): onSubmit runs handleSubmit whatever the state
\* of the submit button
DispatchSubmit ==
    /\ arMounted /\ FormView(ar)
    /\ arIssued.submit < MaxDispatched
    /\ ar' = HandleSubmit(ar).state
    /\ arCalls' = arCalls \o HandleSubmit(ar).calls
    /\ arIssued' = [arIssued EXCEPT !.submit = @ + Len(HandleSubmit(ar).calls)]
    /\ UNCHANGED <<arMounted, credVars, api, dialogs, closeCalls, notebooks>>

\* variant: the catch of handleSubmit words its message as the load failure
SubmitSettled_LoadPrefix(s, r) ==
    IF r.ok
    THEN [s EXCEPT !.submitting = FALSE, !.success = Str(r.value.message)]
    ELSE [s EXCEPT !.submitting = FALSE,
                   !.error = Str("Failed to load groups: " \o r.message)]

\* variant: the catch of handleSubmit also resets the fields of the form
SubmitSettled_ResetsForm(s, r) ==
    IF r.ok
    THEN [s EXCEPT !.submitting = FALSE, !.success = Str(r.value.message)]
    ELSE [s EXCEPT !.submitting = FALSE,
                   !.error = Str("Failed to submit request: " \o r.message),
                   !.permission = "read_only", !.justification = ""]

\* handleSubmit after its await: the try continuation and the catch; every
\* rejection of submitAccessRequest is an Error, whose message the catch
\* takes
SubmitSettled(s, r) ==
    IF r.ok
    THEN [s EXCEPT !.submitting = FALSE, !.success = Str(r.value.message)]
    ELSE [s EXCEPT !.submitting = FALSE,
                   !.error = Str("Failed to submit request: " \o r.message)]

SubmitSettle(i, x) ==
    /\ i \in InFlight("submit")
    /\ arCalls' = RemoveAt(arCalls, i)
    /\ ar' = SetState(arMounted, ar, SubmitSettled(ar, submitAccessRequest(x)))
    /\ UNCHANGED <<arMounted, arIssued, credVars, api, dialogs, closeCalls, notebooks>>

\* the close affordances: the header button and the backdrop always, Cancel in
\* the form unless disabled, Close in the success view
CloseAffordances(s) ==
    {"header", "backdrop"}
    \cup (IF FormView(s) /\ ~CancelDisabled(s) THEN {"cancel"} ELSE {})
    \cup (IF SuccessView(s) THEN {"close"} ELSE {})

\* the elements with onClick={onClose}: the header button, Cancel and Close
OwnOnClick(target) == IF target \in {"header", "cancel", "close"} THEN 1 ELSE 0

\* variant: the backdrop handler closes on every click that reaches it
handleBackdropClick_AnyTarget(target) == 1

\* handleBackdropClick, the onClick of the backdrop, which every click inside
\* the modal bubbles to: the onClose calls it makes for a click on target
\* (e.target === e.currentTarget only when the backdrop itself was clicked)
handleBackdropClick(target) == IF target = "backdrop" THEN 1 ELSE 0

\* the onClose calls of one click: the handler of the target, then the
\* handler of the backdrop
OnCloseCalls(target) == OwnOnClick(target) + handleBackdropClick(target)

\* every place a click can land on
AllTargets == {"header", "backdrop", "cancel", "close", "content"}

\* where a click can land: a close affordance, or anywhere else in the modal
\* ("content": the title, a label, a field, the text of the content area)
ClickTargets(s) == CloseAffordances(s) \cup {"content"}

\* a click; onClose is Dialog.flush(), which disposes the dialog and unmounts
\* the component, and resolve()
Click(target) ==
    /\ arMounted
    /\ target \in ClickTargets(ar)
    /\ closeCalls' = closeCalls + OnCloseCalls(target)
    /\ arMounted' = (OnCloseCalls(target) = 0)
    /\ UNCHANGED <<ar, arCalls, arIssued, credVars, api, dialogs, notebooks>>



----------------------------------------------------------------------------
(* CredentialModal *)

InitialCredState ==
    [info |-> Null, loading |-> TRUE, error |-> Null, copied |-> FALSE,
     downloading |-> FALSE]

\* a pending asynchronous call of the credential modal: getCredentialInfo
\* ("info"), getCredentialsAsText ("text"), or clipboard.writeText of the
\* fetched text ("clip")
CredCall(op, text) == [op |-> op, text |-> text]

\* the state after construction and the mount effect, which runs loadInfo up
\* to its await
InitCred ==
    /\ cred = InitialCredState
    /\ credMounted = TRUE
    /\ credCalls = <<CredCall("info", "")>>
    /\ credIssued = [info |-> 1, copy |-> 0, download |-> 0]
    /\ timers = <<>>
    /\ clipboard = Null

\* no CredentialModal has been opened
IdleCred ==
    /\ cred = InitialCredState
    /\ credMounted = FALSE
    /\ credCalls = <<>>
    /\ credIssued = [info |-> 0, copy |-> 0, download |-> 0]
    /\ timers = <<>>
    /\ clipboard = Null

CredInFlight(op) == {i \in 1..Len(credCalls) : credCalls[i].op = op}

\* info.local_mode as a condition: undefined and false are falsy
LocalMode(s) == s.info # Null /\ s.info[1].local_mode = <<TRUE>>

\* const isReady = info && (info.cookies_valid || info.local_mode)
isReady(s) == s.info # Null /\ (s.info[1].cookies_valid \/ LocalMode(s))

\* which branch of the content area is rendered
CredLoadingView(s) == s.loading
CredErrorView(s) == ~s.loading /\ ~Falsy(s.error)
CredInfoView(s) == ~s.loading /\ Falsy(s.error) /\ s.info # Null

\* variant: the Download button follows cookies_valid alone
DownloadDisabled_CookiesOnly(s) == ~s.info[1].cookies_valid \/ s.downloading

\* disabled={(!isReady && !info.local_mode) || downloading}
DownloadDisabled(s) == (~isReady(s) /\ ~LocalMode(s)) \/ s.downloading
\* disabled={!isReady && !info.local_mode}
CopyDisabled(s) == ~isReady(s) /\ ~LocalMode(s)

\* variant: loadInfo starts without clearing the error
LoadInfoStart_KeepsError(s) == [s EXCEPT !.loading = TRUE]

\* loadInfo up to its await
LoadInfoStart(s) == [s EXCEPT !.loading = TRUE, !.error = Null]

\* loadInfo after its await: try continuation, catch, finally; every
\* rejection of getCredentialInfo is an Error, whose message the catch takes
LoadInfoSettled(s, r) ==
    IF r.ok
    THEN [s EXCEPT !.info = <<r.value>>, !.loading = FALSE]
    ELSE [s EXCEPT !.error = Str(r.message), !.loading = FALSE]

InfoSettle(i, x) ==
    /\ i \in CredInFlight("info")
    /\ credCalls' = RemoveAt(credCalls, i)
    /\ cred' = SetState(credMounted, cred, LoadInfoSettled(cred, getCredentialInfo(x)))
    /\ UNCHANGED <<credMounted, credIssued, timers, clipboard, arVars, api, dialogs, closeCalls, notebooks>>

\* the Retry button of the error view: onClick={loadInfo}
Retry ==
    /\ credMounted /\ CredErrorView(cred)
    /\ credIssued.info < MaxLoads
    /\ cred' = LoadInfoStart(cred)
    /\ credCalls' = Append(credCalls, CredCall("info", ""))
    /\ credIssued' = [credIssued EXCEPT !.info = @ + 1]
    /\ UNCHANGED <<credMounted, timers, clipboard, arVars, api, dialogs, closeCalls, notebooks>>

\* variant: handleDownload without its finally; a failure skips the reset
HandleDownload_NoFinally(s, threw) ==
    IF threw
    THEN [s EXCEPT !.error = Str("Failed to initiate download"),
                   !.downloading = TRUE]
    ELSE [s EXCEPT !.downloading = FALSE]

\* handleDownload, which has no await: downloading is set and cleared in the
\* same task; threw says whether building or clicking the link raised
HandleDownload(s, threw) ==
    IF threw
    THEN [s EXCEPT !.error = Str("Failed to initiate download"),
                   !.downloading = FALSE]
    ELSE [s EXCEPT !.downloading = FALSE]

Download(threw) ==
    /\ credMounted /\ CredInfoView(cred) /\ ~DownloadDisabled(cred)
    /\ credIssued.download < MaxDownloads
    /\ cred' = HandleDownload(cred, threw)
    /\ credIssued' = [credIssued EXCEPT !.download = @ + 1]
    /\ UNCHANGED <<credMounted, credCalls, timers, clipboard, arVars, api, dialogs, closeCalls, notebooks>>

\* the delay of the setTimeout of handleCopy, in ms
CopiedDelay == 2000
\* the amounts of time, in ms, that pass between two tasks
TimeSteps == {1000, 2000}

\* handleCopy up to its first await
Copy ==
    /\ credMounted /\ CredInfoView(cred) /\ ~CopyDisabled(cred)
    /\ credIssued.copy < MaxCopies
    /\ credCalls' = Append(credCalls, CredCall("text", ""))
    /\ credIssued' = [credIssued EXCEPT !.copy = @ + 1]
    /\ UNCHANGED <<cred, credMounted, timers, clipboard, arVars, api, dialogs, closeCalls, notebooks>>

\* the message of the rejection of navigator.clipboard.writeText
ClipboardDenied == "Write permission denied."

\* variant: the catch of handleCopy reports the message of what it caught
CopyFailed_UnderlyingMessage(s, message) == [s EXCEPT !.error = Str(message)]

\* the catch of handleCopy, which does not look at what it caught
CopyFailed(s, message) == [s EXCEPT !.error = Str("Failed to copy to clipboard")]

\* handleCopy resumed by getCredentialsAsText: on success it calls
\* navigator.clipboard.writeText(text) and awaits it
TextSettle(i, x) ==
    /\ i \in CredInFlight("text")
    /\ LET r == getCredentialsAsText(x)
       IN IF r.ok
          THEN /\ credCalls' = [credCalls EXCEPT ![i] = CredCall("clip", r.value)]
               /\ cred' = cred
          ELSE /\ credCalls' = RemoveAt(credCalls, i)
               /\ cred' = SetState(credMounted, cred, CopyFailed(cred, r.message))
    /\ UNCHANGED <<credMounted, credIssued, timers, clipboard, arVars, api, dialogs, closeCalls, notebooks>>

\* handleCopy resumed by writeText: setCopied(true) and setTimeout(..., 2000),
\* or the catch when the clipboard refuses the write
ClipSettle(i, granted) ==
    /\ i \in CredInFlight("clip")
    /\ credCalls' = RemoveAt(credCalls, i)
    /\ IF granted
       THEN /\ clipboard' = Str(credCalls[i].text)
            /\ cred' = SetState(credMounted, cred, [cred EXCEPT !.copied = TRUE])
            /\ timers' = Append(timers, CopiedDelay)
       ELSE /\ cred' = SetState(credMounted, cred, CopyFailed(cred, ClipboardDenied))
            /\ UNCHANGED <<clipboard, timers>>
    /\ UNCHANGED <<credMounted, credIssued, arVars, api, dialogs, closeCalls, notebooks>>

\* d ms pass; a timeout that is due runs before more time passes
Tick(d) ==
    /\ timers # <<>>
    /\ \A i \in DOMAIN timers : timers[i] >= d
    /\ timers' = [i \in DOMAIN timers |-> timers[i] - d]
    /\ UNCHANGED <<cred, credMounted, credCalls, credIssued, clipboard, arVars, api, dialogs, closeCalls, notebooks>>

\* a timeout of handleCopy expires: () => setCopied(false)
TimerFire ==
    /\ timers # <<>> /\ Head(timers) = 0
    /\ timers' = Tail(timers)
    /\ cred' = SetState(credMounted, cred, [cred EXCEPT !.copied = FALSE])
    /\ UNCHANGED <<credMounted, credCalls, credIssued, clipboard, arVars, api, dialogs, closeCalls, notebooks>>

\* a click on the header button, on the backdrop, or anywhere else in the
\* modal that has no handler of its own
CredClickTargets == {"header", "backdrop", "content"}

CredClick(target) ==
    /\ credMounted
    /\ target \in CredClickTargets
    /\ closeCalls' = closeCalls + OnCloseCalls(target)
    /\ credMounted' = (OnCloseCalls(target) = 0)
    /\ UNCHANGED <<cred, credCalls, credIssued, timers, clipboard, arVars, api, dialogs, notebooks>>

----------------------------------------------------------------------------
(* The extension: the user opens one of the two modals *)

ApiPending(fn, x) ==
    [fn |-> fn, x |-> x, done |-> FALSE, ok |-> FALSE, value |-> NoData,
     message |-> ""]

ApiSettled(call, r) ==
    [call EXCEPT !.done = TRUE, !.ok = r.ok, !.value = r.value,
                 !.message = r.message]

NoApiCall == ApiPending("none", Exchange(Null, 0, Null, Null, NoData))

Init ==
    /\ api = NoApiCall
    /\ dialogs = <<>>
    /\ closeCalls = 0
    /\ notebooks = NoNotebooks
    /\ \/ InitAR /\ IdleCred
       \/ IdleAR /\ InitCred

Next ==
    \/ \E i \in DOMAIN arCalls, x \in GroupsExchanges : GroupsSettle(i, x)
    \/ \E g \in GroupNames : SelectGroup(g)
    \/ \E p \in Permissions : SetPermission(p)
    \/ \E j \in Justifications : SetJustification(j)
    \/ Submit
    \/ \E i \in DOMAIN arCalls, x \in SubmitExchanges : SubmitSettle(i, x)
    \/ \E target \in AllTargets : Click(target)
    \/ \E i \in DOMAIN credCalls, x \in InfoExchanges : InfoSettle(i, x)
    \/ Retry
    \/ \E threw \in BOOLEAN : Download(threw)
    \/ Copy
    \/ \E i \in DOMAIN credCalls, x \in TextExchanges : TextSettle(i, x)
    \/ \E i \in DOMAIN credCalls, granted \in BOOLEAN : ClipSettle(i, granted)
    \/ \E d \in TimeSteps : Tick(d)
    \/ TimerFire
    \/ \E target \in CredClickTargets : CredClick(target)

Spec == Init /\ [][Next]_vars

\* the access-request modal driven by the user and by scripts of the page
InitDispatch ==
    /\ api = NoApiCall
    /\ dialogs = <<>>
    /\ closeCalls = 0
    /\ notebooks = NoNotebooks
    /\ InitAR /\ IdleCred

NextDispatch ==
    \/ \E i \in DOMAIN arCalls, x \in GroupsExchanges : GroupsSettle(i, x)
    \/ \E g \in GroupNames : SelectGroup(g)
    \/ \E p \in Permissions : SetPermission(p)
    \/ \E j \in Justifications : SetJustification(j)
    \/ Submit
    \/ DispatchSubmit
    \/ \E i \in DOMAIN arCalls, x \in SubmitExchanges : SubmitSettle(i, x)
    \/ \E target \in AllTargets : Click(target)

SpecDispatch == InitDispatch /\ [][NextDispatch]_vars

----------------------------------------------------------------------------
(* The transport client alone: one call of one api function on one exchange *)

InitTransport ==
    /\ IdleAR /\ IdleCred
    /\ dialogs = <<>>
    /\ closeCalls = 0
    /\ notebooks = NoNotebooks
    /\ api \in {ApiPending("fetchGroups", x) : x \in GroupsExchanges}
             \cup {ApiPending("submitAccessRequest", x) : x \in SubmitExchanges}
             \cup {ApiPending("getCredentialInfo", x) : x \in InfoExchanges}
             \cup {ApiPending("getCredentialsAsText", x) : x \in TextExchanges}

CallFetchGroups ==
    /\ api.fn = "fetchGroups" /\ ~api.done
    /\ api' = ApiSettled(api, fetchGroups(api.x))
    /\ UNCHANGED <<arVars, credVars, dialogs, closeCalls, notebooks>>

CallSubmitAccessRequest ==
    /\ api.fn = "submitAccessRequest" /\ ~api.done
    /\ api' = ApiSettled(api, submitAccessRequest(api.x))
    /\ UNCHANGED <<arVars, credVars, dialogs, closeCalls, notebooks>>

CallGetCredentialInfo ==
    /\ api.fn = "getCredentialInfo" /\ ~api.done
    /\ api' = ApiSettled(api, getCredentialInfo(api.x))
    /\ UNCHANGED <<arVars, credVars, dialogs, closeCalls, notebooks>>

CallGetCredentialsAsText ==
    /\ api.fn = "getCredentialsAsText" /\ ~api.done
    /\ api' = ApiSettled(api, getCredentialsAsText(api.x))
    /\ UNCHANGED <<arVars, credVars, dialogs, closeCalls, notebooks>>

NextTransport ==
    \/ CallFetchGroups
    \/ CallSubmitAccessRequest
    \/ CallGetCredentialInfo
    \/ CallGetCredentialsAsText

SpecTransport == InitTransport /\ [][NextTransport]_vars

----------------------------------------------------------------------------
(* The dialogs of the extension: each showAccessRequestModal or            *)
(* showCredentialModal call creates a widget with its own onClose callback *)
(* and its own promise                                                     *)

DialogKinds == {"access-request", "credentials"}

\* a dialog as shown: open, its promise pending
Dialog(kind) == [kind |-> kind, open |-> TRUE, resolved |-> FALSE]

\* Dialog.flush(): every dialog of the application is disposed
DialogFlush(ds) == [j \in DOMAIN ds |-> [ds[j] EXCEPT !.open = FALSE]]

InitDialogs ==
    /\ IdleAR /\ IdleCred
    /\ api = NoApiCall
    /\ dialogs = <<>>
    /\ closeCalls = 0
    /\ notebooks = NoNotebooks

\* showAccessRequestModal: a toolbar button or the command
ShowAccessRequestModal ==
    /\ Len(dialogs) < MaxDialogs
    /\ dialogs' = Append(dialogs, Dialog("access-request"))
    /\ UNCHANGED <<arVars, credVars, api, closeCalls, notebooks>>

\* showCredentialModal: a toolbar button or the command
ShowCredentialModal ==
    /\ Len(dialogs) < MaxDialogs
    /\ dialogs' = Append(dialogs, Dialog("credentials"))
    /\ UNCHANGED <<arVars, credVars, api, closeCalls, notebooks>>

\* the onClose callback of dialog i: Dialog.flush(); resolve()
OnClose(i) ==
    /\ dialogs[i].open
    /\ dialogs' = [DialogFlush(dialogs) EXCEPT ![i].resolved = TRUE]
    /\ UNCHANGED <<arVars, credVars, api, closeCalls, notebooks>>

NextDialogs ==
    \/ ShowAccessRequestModal
    \/ ShowCredentialModal
    \/ \E i \in DOMAIN dialogs : OnClose(i)

SpecDialogs == InitDialogs /\ [][NextDialogs]_vars

----------------------------------------------------------------------------
(* The plugin: activate adds the two toolbar buttons to the notebook panels *)
(* the tracker holds and connects to widgetAdded for the panels to come. A  *)
(* panel is its toolbar, the sequence of the names of its items.            *)

\* the toolbars a new notebook panel comes with
InitialToolbars == {<<>>, <<"save">>, <<"save", "run">>}

\* how many items of a toolbar have the name
CountItems(toolbar, name) == Cardinality({k \in DOMAIN toolbar : toolbar[k] = name})

\* panel.toolbar.addItem('berdl-access-request', button)
addAccessRequestButton(toolbar) == Append(toolbar, "berdl-access-request")

\* panel.toolbar.addItem('berdl-get-credentials', button)
addCredentialButton(toolbar) == Append(toolbar, "berdl-get-credentials")

\* the body of the forEach callback and of the widgetAdded slot
AddButtons(toolbar) == addCredentialButton(addAccessRequestButton(toolbar))

\* variant: activate connects to widgetAdded without visiting the panels
\* the tracker already holds
ForEachPanel_Skipped(panels) == panels

\* notebookTracker.forEach((panel) => {...})
ForEachPanel(panels) == [k \in DOMAIN panels |-> AddButtons(panels[k])]

InitPlugin ==
    /\ IdleAR /\ IdleCred
    /\ api = NoApiCall
    /\ dialogs = <<>>
    /\ closeCalls = 0
    /\ notebooks = NoNotebooks

\* plugin.activate: the forEach over the panels of the tracker, then the
\* connection to widgetAdded, in one task
Activate ==
    /\ ~notebooks.activated
    /\ notebooks' = [activated |-> TRUE,
                     visited |-> Len(notebooks.panels),
                     panels |-> ForEachPanel(notebooks.panels)]
    /\ UNCHANGED <<arVars, credVars, api, dialogs, closeCalls>>

\* a notebook is opened: the tracker adds the panel and emits widgetAdded,
\* which runs the slot of the plugin once it is connected
OpenNotebook(toolbar) ==
    /\ Len(notebooks.panels) < MaxPanels
    /\ notebooks' = [notebooks EXCEPT !.panels =
           Append(@, IF notebooks.activated THEN AddButtons(toolbar) ELSE toolbar)]
    /\ UNCHANGED <<arVars, credVars, api, dialogs, closeCalls>>

\* a click on one of the two buttons in the toolbar of panel k: onClick
\* calls showAccessRequestModal or showCredentialModal
ClickToolbarButton(k, name) ==
    /\ CountItems(notebooks.panels[k], name) > 0
    /\ IF name = "berdl-access-request"
       THEN ShowAccessRequestModal
       ELSE ShowCredentialModal

NextPlugin ==
    \/ Activate
    \/ \E toolbar \in InitialToolbars : OpenNotebook(toolbar)
    \/ \E k \in DOMAIN notebooks.panels,
          name \in {"berdl-access-request", "berdl-get-credentials"} :
            ClickToolbarButton(k, name)
    \/ \E i \in DOMAIN dialogs : OnClose(i)

SpecPlugin == InitPlugin /\ [][NextPlugin]_vars

----------------------------------------------------------------------------
(* Properties of the access-request workflow, the credential workflow and  *)
(* the transport client                                                    *)

\* C1: in one AccessRequestModal instance at most one submitAccessRequest
\* call is in flight, and while one is in flight the submit button is
\* disabled.
C1_OneSubmitInFlight ==
    /\ Cardinality(InFlight("submit")) <= 1
    /\ InFlight("submit") # {} => SubmitDisabled(ar)

\* a second submit is in flight after the first one failed
C1_Witness ==
    /\ arMounted
    /\ Cardinality(InFlight("submit")) = 1
    /\ arIssued.submit = 2

ExportFailureShown(s) ==
    /\ ~s.loading
    /\ s.error \in {Str("Failed to copy to clipboard"),
                    Str("Failed to initiate download")}

\* C3: after a copy failure or a download failure the CredentialStatus is
\* intact and both export actions are rendered and enabled.
C3_Claim ==
    (credMounted /\ ExportFailureShown(cred)) =>
        /\ cred.info # Null
        /\ CredInfoView(cred)
        /\ ~CopyDisabled(cred)
        /\ ~DownloadDisabled(cred)

\* C4: at most one fetch or export call is in flight in one CredentialModal
\* instance, and the copy button is disabled while a copy is in flight.
C4_Claim ==
    /\ Len(credCalls) <= 1
    /\ (credMounted /\ CredInfoView(cred)
        /\ CredInFlight("text") \cup CredInFlight("clip") # {})
            => CopyDisabled(cred)

\* C5: a non-2xx answer of the submit endpoint is displayed as "Failed to
\* submit request: " followed by the error field of a JSON body, and as
\* "Failed to submit request: Request failed: <status>" when the body is not
\* JSON.
C5_Claim ==
    [][\A i \in DOMAIN arCalls, x \in SubmitExchanges :
        (SubmitSettle(i, x) /\ arMounted /\ x.net = Null /\ ~ResponseOk(x)) =>
            /\ (x.parseError = Null /\ ~Falsy(x.error)) =>
                 ar'.error = Str("Failed to submit request: " \o x.error[1])
            /\ x.parseError # Null =>
                 ar'.error = Str("Failed to submit request: "
                                 \o RequestFailed(x.status))]_vars

\* a non-2xx answer arrived and its JSON body carries no error field
NoErrorField(call) ==
    /\ call.done
    /\ call.x.net = Null
    /\ ~ResponseOk(call.x)
    /\ call.x.parseError = Null
    /\ call.x.error = Null

\* C6 as stated: on every endpoint a non-2xx answer without an error field
\* gives the message "Request failed: <status>".
C6_Claim ==
    NoErrorField(api) =>
        ~api.ok /\ api.message = RequestFailed(api.x.status)

\* C6 amended: a non-2xx answer whose JSON body has no error field gives
\* "Request failed: <status>" from fetchGroups and submitAccessRequest,
\* "Failed to get credential info" from getCredentialInfo and "Failed to get
\* credentials" from getCredentialsAsText.
C6_FallbackMessages ==
    NoErrorField(api) =>
        /\ ~api.ok
        /\ api.message =
             IF api.fn \in {"fetchGroups", "submitAccessRequest"}
             THEN RequestFailed(api.x.status)
             ELSE IF api.fn = "getCredentialInfo"
                  THEN "Failed to get credential info"
             ELSE "Failed to get credentials"

\* getCredentialInfo met a 500 whose JSON body has no error field
C6_Witness ==
    /\ NoErrorField(api)
    /\ api.fn = "getCredentialInfo"
    /\ api.x.status = 500

\* the groups load of the instance failed: only a failed load sets an error
\* before the first submit
LoadFailed == ar.error # Null /\ arIssued.submit = 0

\* a step that re-enters Loading with a new groups fetch
RetryGroups ==
    /\ Next
    /\ ar'.loading
    /\ arIssued'.groups = arIssued.groups + 1

C8_Claim ==
    ar.success # Null =>
        /\ SuccessView(ar)
        /\ ~FormView(ar)
        /\ ~ENABLED Submit

\* C9: every request in flight names a non-empty tenant that is one of the
\* availableGroups; the selection is empty or one of the availableGroups;
\* handleSubmit on an empty selection issues no request.
C9_TenantIsAvailableGroup ==
    /\ \A i \in InFlight("submit") :
          /\ arCalls[i].req.tenant_name # ""
          /\ arCalls[i].req.tenant_name \in Range(ar.availableGroups)
    /\ ar.selectedGroup = "" \/ ar.selectedGroup \in Range(ar.availableGroups)
    /\ HandleSubmit([ar EXCEPT !.selectedGroup = ""]).calls = <<>>

\* a request for the second group of the list, picked by the user, is in
\* flight
C9_Witness ==
    /\ InFlight("submit") # {}
    /\ Len(ar.availableGroups) = 2
    /\ ar.availableGroups[1] # ar.availableGroups[2]
    /\ \E i \in InFlight("submit") :
          arCalls[i].req.tenant_name = ar.availableGroups[2]

\* C10: when the groups load succeeds the list is stored in server order and
\* the selection is its first element, or empty for an empty list.
C10_DefaultSelection ==
    [][\A i \in DOMAIN arCalls, x \in GroupsExchanges :
        (GroupsSettle(i, x) /\ arMounted /\ fetchGroups(x).ok) =>
            /\ ar'.availableGroups = x.data.available_groups
            /\ ar'.selectedGroup =
                 IF x.data.available_groups = <<>> THEN ""
                 ELSE x.data.available_groups[1]]_vars

\* a list that is not in alphabetical order was loaded and its first element
\* is selected
C10_Witness ==
    /\ arMounted
    /\ arIssued.submit = 0
    /\ ar.availableGroups = <<"beta", "alpha">>
    /\ ar.selectedGroup = "beta"

\* the validation messages of handleSubmit
NoGroupsMessage == "No groups available to request access to"
SelectGroupMessage == "Please select a group"

\* C11: a submit of the form without a selection sets the validation message
\* "No groups available to request access to" when available_groups is
\* empty and "Please select a group" when groups exist, it issues no call,
\* and the two messages differ.
C11_ValidationMessages ==
    [][(DispatchSubmit /\ ar.selectedGroup = "") =>
          /\ ar'.error = IF ar.availableGroups = <<>>
                         THEN Str(NoGroupsMessage)
                         ELSE Str(SelectGroupMessage)
          /\ NoGroupsMessage # SelectGroupMessage
          /\ arCalls' = arCalls
          /\ ar'.submitting = ar.submitting]_vars

\* an empty available_groups list was loaded and the form was submitted
C11_Witness ==
    /\ arMounted
    /\ ar.availableGroups = <<>>
    /\ ar.selectedGroup = ""
    /\ ar.error = Str(NoGroupsMessage)

\* the loaded status reports valid cookies or local mode
StatusReady(s) == s.info[1].cookies_valid \/ s.info[1].local_mode = <<TRUE>>

\* C12: isReady is true exactly when the loaded status has cookies_valid or
\* local_mode true, and wherever the Download and Copy buttons are rendered
\* each of them is enabled exactly when isReady is true.
C12_ReadyGatesExport ==
    cred.info # Null =>
        /\ isReady(cred) <=> StatusReady(cred)
        /\ CredInfoView(cred) =>
              /\ ~DownloadDisabled(cred) <=> isReady(cred)
              /\ ~CopyDisabled(cred) <=> isReady(cred)

\* the status of a local-mode server without cookies is shown, and a
\* download was started from it
C12_Witness ==
    /\ credMounted /\ CredInfoView(cred)
    /\ ~cred.info[1].cookies_valid
    /\ cred.info[1].local_mode = <<TRUE>>
    /\ credIssued.download = 1

\* C13: after every successful copy the "copied" acknowledgment is set, it
\* stays set while less than 2000 ms have passed since that copy, and it is
\* cleared once the 2000 ms of the latest copy have passed.
C13_Claim ==
    credMounted =>
        /\ (\E i \in DOMAIN timers : timers[i] > 0) => cred.copied
        /\ timers = <<>> => ~cred.copied

\* C14: when a submit call fails, the instance stops submitting, the form is
\* rendered with Cancel enabled and the submit button enabled for the kept
\* selection, and the selected group, the permission and the justification
\* are the ones the form held when the call failed.
C14_FailureKeepsForm ==
    [][\A i \in DOMAIN arCalls, x \in SubmitExchanges :
         (SubmitSettle(i, x) /\ arMounted /\ ~submitAccessRequest(x).ok) =>
             /\ ~ar'.submitting
             /\ FormView(ar') /\ ~CancelDisabled(ar')
             /\ ar'.selectedGroup # "" => ~SubmitDisabled(ar')
             /\ ar'.selectedGroup = ar.selectedGroup
             /\ ar'.permission = ar.permission
             /\ ar'.justification = ar.justification
             /\ ar'.availableGroups = ar.availableGroups]_vars

\* a submit with a read_write permission and a justification has failed
C14_Witness ==
    /\ arMounted /\ ~ar.submitting /\ arCalls = <<>>
    /\ arIssued.submit = 1
    /\ ar.error = Str("Failed to submit request: Request failed: 500")
    /\ ar.permission = "read_write"
    /\ ar.justification # ""
    /\ ar.selectedGroup # ""

\* the getCredentialInfo calls in flight in a list of calls
InfoCalls(calls) == {i \in DOMAIN calls : calls[i].op = "info"}

\* a step issues a status fetch
FetchIssued ==
    \/ credIssued'.info # credIssued.info
    \/ Cardinality(InfoCalls(credCalls')) > Cardinality(InfoCalls(credCalls))

\* C15: opening the credential modal issues one status fetch; afterwards a
\* status fetch is issued only by a click on Retry in the error view, and
\* that click clears the error, enters Loading and issues exactly one fetch.
C15_FetchOnlyOnRetry ==
    /\ credMounted => credIssued.info = 1 /\ Cardinality(InfoCalls(credCalls)) = 1
    /\ [][/\ FetchIssued => Retry
          /\ Retry =>
                /\ CredErrorView(cred)
                /\ cred'.error = Null /\ cred'.loading
                /\ credIssued'.info = credIssued.info + 1
                /\ credCalls' = Append(credCalls, CredCall("info", ""))
                /\ InfoCalls(credCalls) = {}]_vars

\* the first load failed and Retry was clicked: the modal is loading again,
\* the error is cleared and the second fetch is in flight
C15_Witness ==
    /\ credMounted
    /\ credIssued.info = 2 /\ credIssued.copy = 0 /\ credIssued.download = 0
    /\ cred.loading /\ cred.error = Null /\ cred.info = Null
    /\ Cardinality(InfoCalls(credCalls)) = 1

\* C16: closing one of the dialogs leaves every other dialog as it was, open
\* dialogs open, and resolves the promise of the closed dialog only.
C16_Claim ==
    [][\A i \in DOMAIN dialogs :
         OnClose(i) =>
             /\ ~dialogs'[i].open /\ dialogs'[i].resolved
             /\ \A j \in DOMAIN dialogs \ {i} : dialogs'[j] = dialogs[j]]_vars

C18_CopyFailureMessage ==
    [][\A i \in DOMAIN credCalls :
         (/\ credMounted
          /\ \/ ClipSettle(i, FALSE)
             \/ \E x \in TextExchanges :
                   TextSettle(i, x) /\ ~getCredentialsAsText(x).ok) =>
             /\ cred'.error = Str("Failed to copy to clipboard")
             /\ cred'.copied = cred.copied
             /\ timers' = timers
             /\ clipboard' = clipboard]_vars

\* the only copy of the instance has failed
C18_Witness ==
    /\ credMounted /\ credIssued.copy = 1 /\ credCalls = <<>>
    /\ cred.error = Str("Failed to copy to clipboard")
    /\ ~cred.copied /\ timers = <<>> /\ clipboard = Null

\* C19: the error the form displays names the phase that failed: a failed
\* groups load shows "Failed to load groups: " followed by the message
\* fetchGroups rejected with, a failed submit shows "Failed to submit
\* request: " followed by the message submitAccessRequest rejected with.
C19_ErrorNamesPhase ==
    [][\A i \in DOMAIN arCalls :
         /\ \A x \in GroupsExchanges :
              (GroupsSettle(i, x) /\ arMounted /\ ~fetchGroups(x).ok) =>
                  /\ FormView(ar')
                  /\ ar'.error = Str("Failed to load groups: " \o fetchGroups(x).message)
                  /\ x.net # Null =>
                        ar'.error = Str("Failed to load groups: " \o x.net[1])
         /\ \A x \in SubmitExchanges :
              (SubmitSettle(i, x) /\ arMounted /\ ~submitAccessRequest(x).ok) =>
                  /\ FormView(ar')
                  /\ ar'.error = Str("Failed to submit request: "
                                        \o submitAccessRequest(x).message)
                  /\ x.net # Null =>
                        ar'.error = Str("Failed to submit request: " \o x.net[1])]_vars

\* the groups were loaded and a submit was refused with an error field
C19_Witness ==
    /\ arMounted /\ FormView(ar)
    /\ ar.availableGroups # <<>>
    /\ arIssued.submit = 1 /\ arCalls = <<>>
    /\ ar.error = Str("Failed to submit request: bad tenant")

\* C20: a click on the submit button issues exactly one submitAccessRequest
\* call, whose tenant_name, permission and justification are the values of
\* the form at that moment (an empty justification is left out), and a call
\* in flight keeps its request until it settles, whatever is edited meanwhile.
C20_RequestIsSnapshot ==
    [][/\ Submit =>
            /\ arIssued'.submit = arIssued.submit + 1
            /\ arCalls' = Append(arCalls,
                   Call("submit",
                        [tenant_name |-> ar.selectedGroup,
                         permission |-> ar.permission,
                         justification |-> IF ar.justification = "" THEN Null
                                           ELSE Str(ar.justification)]))
       /\ \A i \in InFlight("submit") :
            \/ \E x \in SubmitExchanges : SubmitSettle(i, x)
            \/ i \in DOMAIN arCalls' /\ arCalls'[i] = arCalls[i]]_vars

\* a request for read_write access to the first group is in flight, and the
\* form has since been changed to the second group, read_only and no
\* justification
C20_Witness ==
    /\ arMounted
    /\ ar.availableGroups = <<"alpha", "beta">>
    /\ \E i \in InFlight("submit") :
          arCalls[i].req = [tenant_name |-> "alpha", permission |-> "read_write",
                            justification |-> Str("need it")]
    /\ ar.selectedGroup = "beta"
    /\ ar.permission = "read_only"
    /\ ar.justification = ""

\* C21: an open access-request modal has issued exactly one groups fetch, and
\* it is loading exactly while that fetch is in flight: it stays loading as
\* long as the fetch has not settled, however long, and stops loading in the
\* step that settles it, with success or failure.
C21_LoadingWhileFetching ==
    /\ arIssued.groups <= 1
    /\ Cardinality(InFlight("groups")) <= 1
    /\ arMounted =>
          /\ arIssued.groups = 1
          /\ ar.loading <=> InFlight("groups") # {}
          /\ ar.loading => LoadingView(ar) /\ ~FormView(ar)

\* the groups fetch has failed and the modal has left Loading
C21_Witness ==
    /\ arMounted /\ ~ar.loading
    /\ arIssued.groups = 1 /\ InFlight("groups") = {}
    /\ ar.error = Str("Failed to load groups: Failed to fetch")

\* C22: when handleDownload has run, the downloading flag is false, whether
\* the download was dispatched or building or clicking the link threw; a
\* throw sets the error "Failed to initiate download" and a dispatched
\* download leaves the error as it was.
C22_DownloadFlagReset ==
    [][\A threw \in BOOLEAN :
         Download(threw) =>
             /\ ~cred'.downloading
             /\ cred'.error = IF threw THEN Str("Failed to initiate download")
                                       ELSE cred.error
             /\ cred'.info = cred.info
             /\ credMounted']_vars

\* a download has failed: the error is set and the flag is back to false
C22_Witness ==
    /\ credMounted /\ credIssued.download = 1
    /\ cred.error = Str("Failed to initiate download")
    /\ ~cred.downloading

\* C23: loading and submitting are never both true, and whenever the success
\* field holds the message of a successful submit both are false.
C23_Claim ==
    /\ ~(ar.loading /\ ar.submitting)
    /\ ar.success # Null => ~ar.loading /\ ~ar.submitting

\* the errors a failed groups load displays
LoadFailureErrors ==
    {Str("Failed to load groups: " \o fetchGroups(x).message) :
        x \in {y \in GroupsExchanges : ~fetchGroups(y).ok}}

\* the instance shows the failure of its groups load
GroupsLoadFailed == ar.error \in LoadFailureErrors

\* C24: once the groups load of an instance has failed, the instance keeps
\* showing that failure, availableGroups and the selection stay empty, the
\* submit button stays disabled, and the instance issues no submit call.
C24_NoSubmitAfterLoadFailure ==
    /\ [](GroupsLoadFailed =>
            /\ ar.availableGroups = <<>>
            /\ ar.selectedGroup = ""
            /\ SubmitDisabled(ar)
            /\ arIssued.submit = 0
            /\ InFlight("submit") = {})
    /\ [][GroupsLoadFailed => GroupsLoadFailed']_vars

\* the load failed, and the user has since filled in the rest of the form
C24_Witness ==
    /\ arMounted /\ FormView(ar)
    /\ GroupsLoadFailed
    /\ ar.permission = "read_write"
    /\ ar.justification = "need it"
    /\ arIssued.submit = 0

\* C25: once the plugin is activated, the toolbar of every notebook panel,
\* whether the panel existed at activation or was opened later, has exactly
\* one access-request button and exactly one credentials button; before
\* activation no panel has either.
C25_ButtonsOncePerPanel ==
    \A k \in DOMAIN notebooks.panels :
        LET n == IF notebooks.activated THEN 1 ELSE 0
        IN /\ CountItems(notebooks.panels[k], "berdl-access-request") = n
           /\ CountItems(notebooks.panels[k], "berdl-get-credentials") = n

\* the plugin was activated with one panel open, and a second panel was
\* opened afterwards
C25_Witness ==
    /\ notebooks.activated
    /\ notebooks.visited = 1
    /\ Len(notebooks.panels) = 2

====
